---- MODULE Spec2Model ----
(***************************************************************************)
(* A model of the ghisa forwarding gateway (src/server.go).                *)
(*                                                                         *)
(* Spec      one request at a time through the mux: proxyHandler and       *)
(*           healthHandler, stepped at their I/O points.                   *)
(* SpecMain  the process lifecycle of main: the listener, the signal, the  *)
(*           shutdown goroutine and the in-flight requests.                *)
(*                                                                         *)
(* Byte strings (bodies, URLs, messages) are sequences of one-byte tokens; *)
(* header values and methods are opaque strings.                           *)
(***************************************************************************)
EXTENDS Integers, Sequences, FiniteSets, TLC

\* ------------------------------------------------------------ bounds

MaxBodyLen == 2
MaxInflight == 2
MaxExtra == 2

\* --------------------------------------------------- program constants

StatusOK == 200
StatusBadRequest == 400
StatusNotFound == 404
StatusMethodNotAllowed == 405
StatusInternalServerError == 500
GracePeriod == 10

MissingMsg == <<"M","i","s","s","i","n","g"," ","u","r","l"," ","p","a","r","a","m","e","t","e","r">>
InvalidMsg == <<"I","n","v","a","l","i","d"," ","u","r","l"," ","p","a","r","a","m","e","t","e","r">>
ReadReqMsg == <<"G","H","I","S","A",":"," ","F","a","i","l","e","d"," ","t","o"," ","r","e","a","d"," ","r","e","q","u","e","s","t"," ","b","o","d","y">>
CreateMsg == <<"G","H","I","S","A",":"," ","F","a","i","l","e","d"," ","t","o"," ","c","r","e","a","t","e"," ","r","e","q","u","e","s","t">>
MakeMsg == <<"G","H","I","S","A",":"," ","F","a","i","l","e","d"," ","t","o"," ","m","a","k","e"," ","r","e","q","u","e","s","t">>
ReadRespMsg == <<"G","H","I","S","A",":"," ","F","a","i","l","e","d"," ","t","o"," ","r","e","a","d"," ","r","e","s","p","o","n","s","e"," ","b","o","d","y">>
MethodNotAllowedMsg == <<"M","e","t","h","o","d"," ","n","o","t"," ","a","l","l","o","w","e","d">>
NotFoundMsg == <<"4","0","4"," ","p","a","g","e"," ","n","o","t"," ","f","o","u","n","d">>
HealthyMsg == <<"S","e","r","v","e","r"," ","i","s"," ","h","e","a","l","t","h","y">>

ACAO == "Access-Control-Allow-Origin"
ACAM == "Access-Control-Allow-Methods"
ACAH == "Access-Control-Allow-Headers"

\* ------------------------------------------------- http.Header (a multimap)

HeaderKeys ==
    {ACAO, ACAM, ACAH, "Content-Type", "Content-Length",
     "X-Content-Type-Options", "Set-Cookie"}

EmptyHeader == [k \in HeaderKeys |-> <<>>]

\* Header.Set replaces the values under the key by the one value.
hSet(h, k, v) == [h EXCEPT ![k] = <<v>>]

\* Header.Add appends the value to those under the key.
hAdd(h, k, v) == [h EXCEPT ![k] = Append(@, v)]

\* Header.Del removes the key.
hDel(h, k) == [h EXCEPT ![k] = <<>>]

\* Header.Get is the first value under the key, "" when there is none.
hGet(h, k) == IF h[k] = <<>> THEN "" ELSE h[k][1]

\* ------------------------------------------ http.ResponseWriter (recorder)

\* code 0: WriteHeader has not been called.  snapHeader is the header map as
\* it stood when the status was committed: what goes on the wire.
NewRecorder ==
    [header |-> EmptyHeader, wroteHeader |-> FALSE, code |-> 0,
     snapHeader |-> EmptyHeader, body |-> <<>>]

\* The first WriteHeader commits the status and the headers; later calls
\* are ignored ("superfluous response.WriteHeader call").
WriteHeader(rw, code) ==
    IF rw.wroteHeader THEN rw
    ELSE [rw EXCEPT !.wroteHeader = TRUE, !.code = code, !.snapHeader = rw.header]

\* Write commits an implicit 200 when no status was written, then appends.
Write(rw, b) ==
    LET rw1 == WriteHeader(rw, StatusOK)
    IN  [rw1 EXCEPT !.body = @ \o b]

\* http.Error: drop Content-Length, set the plain-text headers, WriteHeader(code),
\* Fprintln(w, msg).
httpError(rw, msg, code) ==
    LET h1 == hDel(rw.header, "Content-Length")
        h2 == hSet(h1, "Content-Type", "text/plain; charset=utf-8")
        h3 == hSet(h2, "X-Content-Type-Options", "nosniff")
    IN  Write(WriteHeader([rw EXCEPT !.header = h3], code), msg \o <<"\n">>)

\* What the caller receives once the handler has returned: the implicit 200
\* of a handler that wrote nothing, and the headers as committed.
Result(rw) ==
    [status |-> IF rw.wroteHeader THEN rw.code ELSE StatusOK,
     header |-> IF rw.wroteHeader THEN rw.snapHeader ELSE rw.header,
     body   |-> rw.body]

\* ------------------------------------------------------------ net/url

BackendURL == <<"h","t","t","p",":","/","/","b","/","e">>
OtherURL == <<"H","T","T","P",":","/","/","a","/","x">>
BadURL == <<"h","t","t","p",":","/","/","%">>
RelURL == <<"b","/","e">>
NoSchemeURL == <<":","a">>

Letters == {"h","t","p","s","a","b","e","x","H","T","P","S"}
HexDigits ==
    {"0","1","2","3","4","5","6","7","8","9",
     "a","b","c","d","e","f","A","B","C","D","E","F"}

ToLower(c) ==
    CASE c = "H" -> "h" [] c = "T" -> "t" [] c = "P" -> "p" [] c = "S" -> "s"
      [] OTHER -> c

Lower(s) == [i \in 1..Len(s) |-> ToLower(s[i])]

\* getScheme: the index of the ":" that ends a scheme of letters, 0 when the
\* string has no scheme, -1 when it starts with ":" (missing protocol scheme).
RECURSIVE SchemeEnd(_, _)
SchemeEnd(s, i) ==
    IF i > Len(s) THEN 0
    ELSE IF s[i] \in Letters THEN SchemeEnd(s, i + 1)
    ELSE IF s[i] = ":" THEN (IF i = 1 THEN -1 ELSE i)
    ELSE 0

\* unescape's check: a "%" not followed by two hex digits.
BadEscape(s) ==
    \E i \in 1..Len(s) :
        /\ s[i] = "%"
        /\ \/ i + 2 > Len(s)
           \/ s[i + 1] \notin HexDigits
           \/ s[i + 2] \notin HexDigits

\* url.Parse: the scheme is lowercased, the rest kept; err as url.Parse
\* reports it for the strings modelled (no query, no fragment).
urlParse(s) ==
    LET e == SchemeEnd(s, 1)
    IN  [err    |-> e = -1 \/ BadEscape(s),
         scheme |-> IF e > 0 THEN Lower(SubSeq(s, 1, e - 1)) ELSE <<>>,
         rest   |-> IF e > 0 THEN SubSeq(s, e + 1, Len(s)) ELSE s]

\* URL.String: the parsed URL written out again.
urlString(u) ==
    IF u.scheme = <<>> THEN u.rest ELSE u.scheme \o <<":">> \o u.rest

\* URL.Query().Get(key): the first value under the key, empty when absent.
RECURSIVE QueryGet(_, _)
QueryGet(q, key) ==
    IF q = <<>> THEN <<>>
    ELSE IF Head(q).k = key THEN Head(q).v
    ELSE QueryGet(Tail(q), key)

\* ----------------------------------------------------------- the inputs

ByteVals == {"t", "0xFF"}

Bodies == UNION {[1..n -> ByteVals] : n \in 0..MaxBodyLen}

Methods == {"GET", "POST", "OPTIONS", "PUT", "HEAD"}

Paths == {"/", "/health", "/x"}

Queries ==
    {<<>>,
     <<[k |-> "url", v |-> <<>>]>>,
     <<[k |-> "q", v |-> BackendURL]>>,
     <<[k |-> "url", v |-> BadURL]>>,
     <<[k |-> "url", v |-> NoSchemeURL]>>,
     <<[k |-> "url", v |-> BackendURL]>>,
     <<[k |-> "url", v |-> OtherURL]>>,
     <<[k |-> "q", v |-> BadURL], [k |-> "url", v |-> RelURL]>>}

JSONHeader == hSet(EmptyHeader, "Content-Type", "application/json")

ReqHeaders == {EmptyHeader, JSONHeader}

Requests ==
    [method : Methods, path : Paths, query : Queries,
     header : ReqHeaders, body : Bodies]

NoRequest ==
    [method |-> "", path |-> "", query |-> <<>>,
     header |-> EmptyHeader, body |-> <<>>]

\* ----------------------------------------------------------- the targets

BackendResponse == <<"b","a","c","k","e","n","d"," ","r","e","s","p","o","n","s","e">>

TextHeader == hSet(EmptyHeader, "Content-Type", "text/plain; charset=utf-8")

CookieHeader ==
    hAdd(hAdd(hSet(EmptyHeader, "Content-Type", "application/json; charset=utf-8"),
              "Set-Cookie", "a=1"), "Set-Cookie", "b=2")

ClashHeader ==
    hSet(hSet(EmptyHeader, ACAO, "https://target.example"), "Content-Length", "2")

TargetHeaders == {EmptyHeader, CookieHeader, ClashHeader}

TargetStatuses == {200, 404, 500}

\* The test backend echoes a POST's body and answers anything else with
\* "backend response"; any other target may answer anything.
TargetResponses(req) ==
    IF req.url = BackendURL
    THEN {[status |-> StatusOK, header |-> TextHeader,
           body |-> IF req.method = "POST" THEN req.body ELSE BackendResponse]}
    ELSE [status : TargetStatuses, header : TargetHeaders, body : Bodies]

\* Client.Do refuses a URL whose scheme it cannot dial.
Unsupported(req) == urlParse(req.url).scheme \notin {<<"h","t","t","p">>, <<"h","t","t","p","s">>}

\* ------------------------------------------------------------ the state

VARIABLES
    pc,          \* where the request in hand is: idle, proxy, validate, build,
                 \* do, relay, health, done
    entry,       \* how the handler was entered: "mux" (main's ServeMux) or
                 \* "direct" (called with a recorder, as the tests do)
    handler,     \* the handler serving it: "proxy", "health", "" when idle
    r,           \* the inbound request
    w,           \* the inbound response writer
    proxyURL,    \* the parsed url parameter
    inboundRead, \* whether io.ReadAll(r.Body) was called
    outbound,    \* the outbound requests constructed (at most one)
    executed,    \* whether client.Do was called
    resp,        \* the outbound responses received (at most one)
    respReadErr, \* whether io.ReadAll(resp.Body) failed
    mainPc,      \* main goroutine: start, serving, returned, exited
    shutPc,      \* shutdown goroutine: waiting, draining, stopped
    quit,        \* signals buffered in the quit channel (capacity 1)
    listening,   \* whether the listener accepts connections
    inShutdown,  \* whether server.Shutdown has been called
    inflight,    \* in-flight requests: slot -> seconds of work left (0: free)
    elapsed,     \* seconds since server.Shutdown was called
    exited,      \* whether the process has exited
    abandoned    \* work left on the requests the exit cut off

reqVars ==
    <<pc, entry, handler, r, w, proxyURL, inboundRead, outbound, executed,
      resp, respReadErr>>

mainVars ==
    <<mainPc, shutPc, quit, listening, inShutdown, inflight, elapsed, exited,
      abandoned>>

vars == <<reqVars, mainVars>>

NoURL == [err |-> FALSE, scheme |-> <<>>, rest |-> <<>>]

Slots == 1..MaxInflight

InitReq ==
    /\ pc = "idle"
    /\ entry = ""
    /\ handler = ""
    /\ r = NoRequest
    /\ w = NewRecorder
    /\ proxyURL = NoURL
    /\ inboundRead = FALSE
    /\ outbound = <<>>
    /\ executed = FALSE
    /\ resp = <<>>
    /\ respReadErr = FALSE

InitMain ==
    /\ mainPc = "start"
    /\ shutPc = "waiting"
    /\ quit = 0
    /\ listening = FALSE
    /\ inShutdown = FALSE
    /\ inflight = [s \in Slots |-> 0]
    /\ elapsed = 0
    /\ exited = FALSE
    /\ abandoned = {}

Init == InitReq /\ InitMain

\* ------------------------------------------------------------ main's mux

\* A mux with the "/" pattern alone.
MuxAllProxy(path) == "proxy"

\* mux.HandleFunc("/", proxyHandler); mux.HandleFunc("/health", healthHandler):
\* "/health" matches that path alone, "/" every other path.
MuxHandler(path) == IF path = "/health" THEN "health" ELSE "proxy"

Begin(req, how, h) ==
    /\ pc = "idle"
    /\ pc' = h
    /\ entry' = how
    /\ handler' = h
    /\ r' = req
    /\ w' = NewRecorder
    /\ proxyURL' = NoURL
    /\ inboundRead' = FALSE
    /\ outbound' = <<>>
    /\ executed' = FALSE
    /\ resp' = <<>>
    /\ respReadErr' = FALSE
    /\ UNCHANGED mainVars

\* A request arrives on the listener and the mux picks its handler.
Serve ==
    /\ pc = "idle"
    /\ \E req \in Requests : Begin(req, "mux", MuxHandler(req.path))

\* A handler is called with a request and a recorder, as server_test.go calls
\* proxyHandler.
Call(h) ==
    /\ pc = "idle"
    /\ \E req \in Requests : Begin(req, "direct", h)

\* --------------------------------------------------------- proxyHandler

\* The CORS headers with Access-Control-Allow-Headers left out.
SetCORSNoAllowHeaders(rw) ==
    [rw EXCEPT !.header = hSet(hSet(@, ACAO, "*"), ACAM, "GET, POST, OPTIONS")]

\* w.Header().Set of the three CORS headers.
SetCORS(rw) ==
    [rw EXCEPT !.header =
        hSet(hSet(hSet(@, ACAO, "*"), ACAM, "GET, POST, OPTIONS"),
             ACAH, "Content-Type")]

\* The preflight test against the wrong spelling of the method.
IsPreflightLower(req) == req.method = "options"

\* r.Method == "OPTIONS"
IsPreflight(req) == req.method = "OPTIONS"

\* A conversion that drops the bytes that are not valid text.
ReaderOfLossy(b) == SelectSeq(b, LAMBDA c : c # "0xFF")

\* strings.NewReader(string(body)): the bytes read, copied into a string and
\* read back from it by the transport.
ReaderOf(b) == [i \in 1..Len(b) |-> b[i]]

\* The inbound method passed on.
OtherMethodSame(req) == req.method

\* The method of the outbound request in the else branch: http.MethodGet.
OtherMethod(req) == "GET"

\* http.NewRequest parses the URL string it is given and fails when that
\* fails; a nil body is the empty body.
NewRequest(method, u, body) ==
    [err |-> urlParse(u).err,
     req |-> [method |-> method, url |-> u, body |-> body, header |-> EmptyHeader]]

\* for key, values := range resp.Header { for _, value := range values {
\* w.Header().Add(key, value) } }: each key's values appended in order.
RECURSIVE AddAll(_, _, _)
AddAll(h, k, vs) ==
    IF vs = <<>> THEN h ELSE AddAll(hAdd(h, k, Head(vs)), k, Tail(vs))

RECURSIVE CopyKeys(_, _, _)
CopyKeys(h, src, keys) ==
    IF keys = {} THEN h
    ELSE LET k == CHOOSE x \in keys : TRUE
         IN  CopyKeys(AddAll(h, k, src[k]), src, keys \ {k})

\* The copy with Header.Set in place of Header.Add: the last value of each
\* key replaces what was there.
CopyHeaderSet(dst, src) ==
    [k \in HeaderKeys |->
        IF src[k] = <<>> THEN dst[k] ELSE <<src[k][Len(src[k])]>>]

CopyHeader(dst, src) == CopyKeys(dst, src, HeaderKeys)

\* r.URL.Query().Get("url"), under a wrong parameter name.
UrlParamWrongKey(req) == QueryGet(req.query, "q")

\* r.URL.Query().Get("url")
UrlParam(req) == QueryGet(req.query, "url")

\* Lines 17-24: the CORS headers, then the OPTIONS short-circuit.
ProxyPreflight ==
    /\ pc = "proxy"
    /\ w' = SetCORS(w)
    /\ pc' = IF IsPreflight(r) THEN "done" ELSE "validate"
    /\ UNCHANGED <<entry, handler, r, proxyURL, inboundRead, outbound,
                   executed, resp, respReadErr>>
    /\ UNCHANGED mainVars

\* Lines 26-36: the url parameter, missing or not parsing.
ProxyValidate ==
    /\ pc = "validate"
    /\ LET targetURL == UrlParam(r)
           u == urlParse(targetURL)
       IN  IF targetURL = <<>>
           THEN /\ w' = httpError(w, MissingMsg, StatusBadRequest)
                /\ pc' = "done"
                /\ UNCHANGED proxyURL
           ELSE IF u.err
           THEN /\ w' = httpError(w, InvalidMsg, StatusBadRequest)
                /\ pc' = "done"
                /\ UNCHANGED proxyURL
           ELSE /\ proxyURL' = u
                /\ pc' = "build"
                /\ UNCHANGED w
    /\ UNCHANGED <<entry, handler, r, inboundRead, outbound, executed, resp,
                   respReadErr>>
    /\ UNCHANGED mainVars

\* Lines 39-50: a POST reads the inbound body and builds a POST carrying it.
ProxyBuildPost(readErr) ==
    /\ pc = "build"
    /\ r.method = "POST"
    /\ inboundRead' = TRUE
    /\ IF readErr
       THEN /\ w' = httpError(w, ReadReqMsg, StatusInternalServerError)
            /\ pc' = "done"
            /\ UNCHANGED outbound
       ELSE LET n == NewRequest("POST", urlString(proxyURL), ReaderOf(r.body))
            IN  IF n.err
                THEN /\ w' = httpError(w, CreateMsg, StatusInternalServerError)
                     /\ pc' = "done"
                     /\ UNCHANGED outbound
                ELSE /\ outbound' = <<[n.req EXCEPT !.header = r.header]>>
                     /\ pc' = "do"
                     /\ UNCHANGED w
    /\ UNCHANGED <<entry, handler, r, proxyURL, executed, resp, respReadErr>>
    /\ UNCHANGED mainVars

\* Lines 51-58: any other method builds a bodiless request.
ProxyBuildOther ==
    /\ pc = "build"
    /\ r.method # "POST"
    /\ LET n == NewRequest(OtherMethod(r), urlString(proxyURL), <<>>)
       IN  IF n.err
           THEN /\ w' = httpError(w, CreateMsg, StatusInternalServerError)
                /\ pc' = "done"
                /\ UNCHANGED outbound
           ELSE /\ outbound' = <<[n.req EXCEPT !.header = r.header]>>
                /\ pc' = "do"
                /\ UNCHANGED w
    /\ UNCHANGED <<entry, handler, r, proxyURL, inboundRead, executed, resp,
                   respReadErr>>
    /\ UNCHANGED mainVars

\* Lines 60-65: client.Do; the transport fails, or the target answers.
ProxyDo(netErr) ==
    /\ pc = "do"
    /\ executed' = TRUE
    /\ IF netErr \/ Unsupported(outbound[1])
       THEN /\ w' = httpError(w, MakeMsg, StatusInternalServerError)
            /\ pc' = "done"
            /\ UNCHANGED resp
       ELSE /\ \E tr \in TargetResponses(outbound[1]) : resp' = <<tr>>
            /\ pc' = "relay"
            /\ UNCHANGED w
    /\ UNCHANGED <<entry, handler, r, proxyURL, inboundRead, outbound,
                   respReadErr>>
    /\ UNCHANGED mainVars

\* Lines 66-80: the target's headers, its status, then its body or, when
\* the body cannot be read, http.Error.
ProxyRelay(readErr) ==
    /\ pc = "relay"
    /\ LET w1 == [w EXCEPT !.header = CopyHeader(@, resp[1].header)]
           w2 == WriteHeader(w1, resp[1].status)
       IN  w' = IF readErr
                THEN httpError(w2, ReadRespMsg, StatusInternalServerError)
                ELSE Write(w2, resp[1].body)
    /\ respReadErr' = readErr
    /\ pc' = "done"
    /\ UNCHANGED <<entry, handler, r, proxyURL, inboundRead, outbound,
                   executed, resp>>
    /\ UNCHANGED mainVars

\* -------------------------------------------------------- healthHandler

\* The two checks in the other order: the path first, then the method.
HealthResponsePathFirst(rw, req) ==
    IF req.path # "/health"
    THEN httpError(rw, NotFoundMsg, StatusNotFound)
    ELSE IF req.method # "GET"
    THEN httpError(rw, MethodNotAllowedMsg, StatusMethodNotAllowed)
    ELSE Write(WriteHeader(rw, StatusOK), HealthyMsg)

\* Lines 84-95: the method first, then the path; http.NotFound is
\* http.Error with "404 page not found".
HealthResponse(rw, req) ==
    IF req.method # "GET"
    THEN httpError(rw, MethodNotAllowedMsg, StatusMethodNotAllowed)
    ELSE IF req.path # "/health"
    THEN httpError(rw, NotFoundMsg, StatusNotFound)
    ELSE Write(WriteHeader(rw, StatusOK), HealthyMsg)

\* Lines 83-96.
HealthHandler ==
    /\ pc = "health"
    /\ w' = HealthResponse(w, r)
    /\ pc' = "done"
    /\ UNCHANGED <<entry, handler, r, proxyURL, inboundRead, outbound,
                   executed, resp, respReadErr>>
    /\ UNCHANGED mainVars

\* The handler has returned and the response is with the caller; the next
\* request starts from a fresh request and writer.
Finish ==
    /\ pc = "done"
    /\ pc' = "idle"
    /\ entry' = ""
    /\ handler' = ""
    /\ r' = NoRequest
    /\ w' = NewRecorder
    /\ proxyURL' = NoURL
    /\ inboundRead' = FALSE
    /\ outbound' = <<>>
    /\ executed' = FALSE
    /\ resp' = <<>>
    /\ respReadErr' = FALSE
    /\ UNCHANGED mainVars

Next ==
    \/ Serve
    \/ \E h \in {"proxy", "health"} : Call(h)
    \/ ProxyPreflight
    \/ ProxyValidate
    \/ \E readErr \in BOOLEAN : ProxyBuildPost(readErr)
    \/ ProxyBuildOther
    \/ \E netErr \in BOOLEAN : ProxyDo(netErr)
    \/ \E readErr \in BOOLEAN : ProxyRelay(readErr)
    \/ HealthHandler
    \/ Finish

Spec == Init /\ [][Next]_vars

\* ------------------------------------------------------------------ main

\* The longest a request works, in seconds: past the grace period.
MaxWork == GracePeriod + MaxExtra

Busy == {s \in Slots : inflight[s] > 0}

\* The requests a process exit cuts off: the work each had left, and what
\* was left of the grace period.
CutOff ==
    {[left |-> inflight[s], grace |-> GracePeriod - elapsed] : s \in Busy}

\* Line 126: ListenAndServe binds the port and serves; it fails when the port
\* cannot be bound (log.Fatalf exits the process), and returns
\* ErrServerClosed at once when Shutdown was called before it.
Listen(ok) ==
    /\ ~exited
    /\ mainPc = "start"
    /\ IF inShutdown
       THEN mainPc' = "returned" /\ UNCHANGED <<listening, exited>>
       ELSE IF ok
       THEN mainPc' = "serving" /\ listening' = TRUE /\ UNCHANGED exited
       ELSE mainPc' = "exited" /\ exited' = TRUE /\ UNCHANGED listening
    /\ UNCHANGED <<shutPc, quit, inShutdown, inflight, elapsed, abandoned>>
    /\ UNCHANGED reqVars

\* The listener accepts a connection; its request has d seconds of work.
Accept(d) ==
    /\ ~exited
    /\ listening
    /\ Busy # Slots
    /\ LET s == CHOOSE x \in Slots \ Busy : \A y \in Slots \ Busy : x <= y
       IN  inflight' = [inflight EXCEPT ![s] = d]
    /\ UNCHANGED <<mainPc, shutPc, quit, listening, inShutdown, elapsed,
                   exited, abandoned>>
    /\ UNCHANGED reqVars

\* A second passes: every in-flight request works, and the shutdown
\* context's timer runs.  The timer's expiry is not slept through.
Tick ==
    /\ ~exited
    /\ Busy # {}
    /\ ~(shutPc = "draining" /\ elapsed = GracePeriod)
    /\ inflight' = [s \in Slots |-> IF inflight[s] > 0 THEN inflight[s] - 1 ELSE 0]
    /\ elapsed' = IF shutPc = "draining" THEN elapsed + 1 ELSE elapsed
    /\ UNCHANGED <<mainPc, shutPc, quit, listening, inShutdown, exited,
                   abandoned>>
    /\ UNCHANGED reqVars

\* Lines 109-110: an interrupt or SIGTERM is delivered into the quit channel,
\* which buffers one.
Signal ==
    /\ ~exited
    /\ quit = 0
    /\ shutPc = "waiting"
    /\ quit' = 1
    /\ UNCHANGED <<mainPc, shutPc, listening, inShutdown, inflight, elapsed,
                   exited, abandoned>>
    /\ UNCHANGED reqVars

\* Lines 113-119: the goroutine receives the signal, starts the 10 second
\* context and calls server.Shutdown, which marks the server as shutting
\* down and closes the listener.
ShutdownStart ==
    /\ ~exited
    /\ shutPc = "waiting"
    /\ quit = 1
    /\ quit' = 0
    /\ shutPc' = "draining"
    /\ inShutdown' = TRUE
    /\ listening' = FALSE
    /\ elapsed' = 0
    /\ UNCHANGED <<mainPc, inflight, exited, abandoned>>
    /\ UNCHANGED reqVars

\* Line 126: with the listener closed by Shutdown, ListenAndServe returns
\* ErrServerClosed without waiting for Shutdown to return.
ServeReturn ==
    /\ ~exited
    /\ mainPc = "serving"
    /\ inShutdown
    /\ mainPc' = "returned"
    /\ UNCHANGED <<shutPc, quit, listening, inShutdown, inflight, elapsed,
                   exited, abandoned>>
    /\ UNCHANGED reqVars

\* Lines 126-129: the error is ErrServerClosed, main returns and the process
\* exits with whatever is still running.
MainExit ==
    /\ ~exited
    /\ mainPc = "returned"
    /\ mainPc' = "exited"
    /\ exited' = TRUE
    /\ abandoned' = CutOff
    /\ UNCHANGED <<shutPc, quit, listening, inShutdown, inflight, elapsed>>
    /\ UNCHANGED reqVars

\* Lines 119-122: Shutdown returns nil once no connection is active.
ShutdownDone ==
    /\ ~exited
    /\ shutPc = "draining"
    /\ Busy = {}
    /\ shutPc' = "stopped"
    /\ UNCHANGED <<mainPc, quit, listening, inShutdown, inflight, elapsed,
                   exited, abandoned>>
    /\ UNCHANGED reqVars

\* Lines 119-121: the context expires with requests still active, Shutdown
\* returns its error and log.Fatalf exits the process.
ShutdownTimeout ==
    /\ ~exited
    /\ shutPc = "draining"
    /\ elapsed = GracePeriod
    /\ Busy # {}
    /\ exited' = TRUE
    /\ abandoned' = CutOff
    /\ UNCHANGED <<mainPc, shutPc, quit, listening, inShutdown, inflight,
                   elapsed>>
    /\ UNCHANGED reqVars

NextMain ==
    \/ \E ok \in BOOLEAN : Listen(ok)
    \/ \E d \in 1..MaxWork : Accept(d)
    \/ Tick
    \/ Signal
    \/ ShutdownStart
    \/ ServeReturn
    \/ MainExit
    \/ ShutdownDone
    \/ ShutdownTimeout

SpecMain == Init /\ [][NextMain]_vars

\* -------------------------------------------------------- the properties

\* The three CORS headers, first value each, as checkCorsHeaders reads them.
HasCORS(h) ==
    /\ hGet(h, ACAO) = "*"
    /\ hGet(h, ACAM) = "GET, POST, OPTIONS"
    /\ hGet(h, ACAH) = "Content-Type"

\* The values the handler itself puts under each key before the relay.
CorsOnly ==
    [k \in HeaderKeys |->
        CASE k = ACAO -> <<"*">>
          [] k = ACAM -> <<"GET, POST, OPTIONS">>
          [] k = ACAH -> <<"Content-Type">>
          [] OTHER -> <<>>]

\* The values of the url parameter as the query holds them, in order.
UrlValues(q) == SelectSeq(q, LAMBDA p : p.k = "url")

UrlMissing(q) == UrlValues(q) = <<>> \/ UrlValues(q)[1].v = <<>>

UrlUnparsable(q) ==
    /\ UrlValues(q) # <<>>
    /\ UrlValues(q)[1].v \in {BadURL, NoSchemeURL}

NoForwarding == ~inboundRead /\ outbound = <<>> /\ ~executed /\ resp = <<>>

Relayed == pc = "done" /\ handler = "proxy" /\ resp # <<>> /\ ~respReadErr

\* C1: a non-POST, non-OPTIONS request whose outbound request and body read
\* succeed is answered with the target's status and body, and with every
\* value of every header of the target appended after the CORS values.
C1_RelayCopiesResponse ==
    (Relayed /\ r.method \notin {"POST", "OPTIONS"}) =>
        /\ Result(w).status = resp[1].status
        /\ Result(w).body = resp[1].body
        /\ \A k \in HeaderKeys :
              Result(w).header[k] = CorsOnly[k] \o resp[1].header[k]

C1_Witness ==
    /\ Relayed
    /\ r.method = "PUT"
    /\ resp[1].status = 404
    /\ resp[1].header = ClashHeader
    /\ Len(resp[1].body) = MaxBodyLen

\* C2: the outbound request of a POST is a POST to the parsed target whose
\* body is the inbound body, byte for byte; the echoing backend's answer
\* relayed back is that body.
C2_PostBodyForwarded ==
    (handler = "proxy" /\ r.method = "POST" /\ outbound # <<>>) =>
        /\ outbound[1].method = "POST"
        /\ outbound[1].url = urlString(urlParse(UrlValues(r.query)[1].v))
        /\ outbound[1].body = r.body
        /\ (Relayed /\ UrlValues(r.query)[1].v = BackendURL) =>
              Result(w).body = r.body

C2_Witness ==
    /\ Relayed
    /\ r.method = "POST"
    /\ UrlValues(r.query)[1].v = BackendURL
    /\ r.body = <<"0xFF", "t">>
    /\ Result(w).body = <<"0xFF", "t">>

\* C3: a non-OPTIONS request without a url value gets 400 "Missing url
\* parameter\n", one whose url value does not parse gets 400 "Invalid url
\* parameter\n"; neither reads the inbound body nor builds or sends an
\* outbound request.
C3_BadUrlRejected ==
    (handler = "proxy" /\ r.method # "OPTIONS"
        /\ (UrlMissing(r.query) \/ UrlUnparsable(r.query))) =>
        /\ NoForwarding
        /\ pc \in {"proxy", "validate", "done"}
        /\ pc = "done" =>
              /\ Result(w).status = StatusBadRequest
              /\ Result(w).body =
                    (IF UrlMissing(r.query) THEN MissingMsg ELSE InvalidMsg)
                        \o <<"\n">>

C3_Witness ==
    /\ pc = "done"
    /\ handler = "proxy"
    /\ r.method = "POST"
    /\ r.query = <<[k |-> "url", v |-> BadURL]>>
    /\ r.body # <<>>

\* C4: every response of proxyHandler carries the three CORS headers with
\* their values first under their keys, on the wire and in the header map.
C4_CorsOnEveryPath ==
    (pc = "done" /\ handler = "proxy") =>
        HasCORS(Result(w).header) /\ HasCORS(w.header)

C4_Witness ==
    /\ pc = "done"
    /\ handler = "proxy"
    /\ resp # <<>>
    /\ resp[1].header = ClashHeader
    /\ respReadErr

\* C5 as the specification states it: the outbound request of a non-POST, non-OPTIONS request
\* has the inbound method and no body.
C5_SameMethod ==
    (handler = "proxy" /\ r.method \notin {"POST", "OPTIONS"} /\ outbound # <<>>) =>
        outbound[1].method = r.method /\ outbound[1].body = <<>>

\* C5 as amended: the outbound request of a non-POST, non-OPTIONS request
\* is a GET with no body, whatever the inbound method and body.
C5_AlwaysGet ==
    (handler = "proxy" /\ r.method \notin {"POST", "OPTIONS"} /\ outbound # <<>>) =>
        outbound[1].method = "GET" /\ outbound[1].body = <<>>

C5_Witness ==
    /\ handler = "proxy"
    /\ r.method = "PUT"
    /\ r.body # <<>>
    /\ outbound # <<>>
    /\ executed

\* C6: an OPTIONS request, whatever its url parameter, returns at once: no
\* status written (the implicit 200), an empty body, the CORS headers and
\* nothing else, no body read, no outbound request.
C6_OptionsShortCircuit ==
    (handler = "proxy" /\ r.method = "OPTIONS" /\ pc # "proxy") =>
        /\ pc = "done"
        /\ ~w.wroteHeader
        /\ Result(w).status = StatusOK
        /\ Result(w).body = <<>>
        /\ Result(w).header = CorsOnly
        /\ NoForwarding

C6_Witness ==
    /\ pc = "done"
    /\ handler = "proxy"
    /\ r.method = "OPTIONS"
    /\ r.query = <<[k |-> "url", v |-> BadURL]>>

\* C7: healthHandler answers GET /health with 200 "Server is healthy", any
\* other method with 405 whatever the path, a GET on another path with 404,
\* and forwards nothing.
C7_Health ==
    (handler = "health") =>
        /\ pc \in {"health", "done"}
        /\ NoForwarding
        /\ pc = "done" =>
              /\ (r.method = "GET" /\ r.path = "/health") =>
                    Result(w).status = StatusOK /\ Result(w).body = HealthyMsg
              /\ r.method # "GET" => Result(w).status = StatusMethodNotAllowed
              /\ (r.method = "GET" /\ r.path # "/health") =>
                    Result(w).status = StatusNotFound

C7_Witness ==
    /\ pc = "done"
    /\ handler = "health"
    /\ r.method = "PUT"
    /\ r.path = "/x"

\* C8 as the specification states it: every response that comes through the listener carries
\* the three CORS headers.
C8_CorsOnEveryRoute ==
    (pc = "done" /\ entry = "mux") => HasCORS(Result(w).header)

\* C8 as amended: through the listener, every response for a path other
\* than /health carries the three CORS headers, and a response for /health
\* comes from healthHandler and carries none of them.
C8_CorsExceptHealth ==
    (pc = "done" /\ entry = "mux") =>
        /\ r.path # "/health" => HasCORS(Result(w).header)
        /\ r.path = "/health" =>
              /\ handler = "health"
              /\ \A k \in {ACAO, ACAM, ACAH} : Result(w).header[k] = <<>>

C8_Witness ==
    /\ pc = "done"
    /\ entry = "mux"
    /\ r.path = "/health"
    /\ r.method = "GET"
    /\ Result(w).status = StatusOK

\* C10 as the specification states it: when the outbound response body cannot be read, the
\* status of the inbound response is 500.
C10_ReadFailureIs500 ==
    (pc = "done" /\ handler = "proxy" /\ resp # <<>> /\ respReadErr) =>
        Result(w).status = StatusInternalServerError

\* C9 as the specification states it: the process does not exit while a request is in flight
\* that would have finished within what is left of the grace period.
C9_NoExitBeforeDrain ==
    exited => \A a \in abandoned : a.left > a.grace

====
